---- MODULE Spec2Model ----
(***************************************************************************)
(* Apollo.io MCP bridge: the call-tool handler (index.ts), the upstream    *)
(* client (apollo-client.ts) and their pure helpers.                       *)
(*                                                                         *)
(* JavaScript values are tagged records:                                   *)
(*   [t |-> "undef"], [t |-> "null"], [t |-> "bool", v |-> BOOLEAN],       *)
(*   [t |-> "num", v |-> Int], [t |-> "str", v |-> <<characters>>],        *)
(*   [t |-> "arr", v |-> <<values>>],                                      *)
(*   [t |-> "obj", v |-> <<[k |-> key, v |-> value]>>]  (insertion order). *)
(* Property keys are TLA+ strings; string values are character sequences,  *)
(* because the code inspects them character by character.                  *)
(*                                                                         *)
(* One invocation is followed from the host's request to the response:     *)
(* the handler and the client method run to the method's next await, the   *)
(* upstream reply resumes them.  The handler modelled is the one with the  *)
(* bulk_people_enrichment case (the first listing of the server file).     *)
(* Spec follows one invocation at a time; SpecOverlap lets several         *)
(* invocations of the async handler be in progress at once.                *)
(* Property keys that look like array indices, which Object.entries would  *)
(* move to the front, and characters that JSON.stringify would escape do   *)
(* not occur in the inputs.                                                *)
(***************************************************************************)
EXTENDS Integers, Sequences, FiniteSets, TLC

\* ------------------------------------------------------------------------
\* JavaScript values
\* ------------------------------------------------------------------------
Undef == [t |-> "undef"]
JNull == [t |-> "null"]
Str(cs) == [t |-> "str", v |-> cs]
Num(n) == [t |-> "num", v |-> n]
Bool(b) == [t |-> "bool", v |-> b]
Arr(items) == [t |-> "arr", v |-> items]
Obj(entries) == [t |-> "obj", v |-> entries]
Entry(key, value) == [k |-> key, v |-> value]

\* JavaScript truthiness (the code's `!x`, `x && y`, `x || y`, `if (x)`).
Truthy(x) ==
    CASE x.t = "undef" -> FALSE
      [] x.t = "null" -> FALSE
      [] x.t = "bool" -> x.v
      [] x.t = "num" -> x.v # 0
      [] x.t = "str" -> Len(x.v) > 0
      [] OTHER -> TRUE

\* Array.isArray(x)
IsArray(x) == x.t = "arr"

\* Variant of IsNullish that lets null through.
OnlyUndefined(x) == x.t = "undef"

\* `x === undefined || x === null`
IsNullish(x) == x.t = "undef" \/ x.t = "null"

\* Property read o.k on an object value: the property's value, or undefined.
Get(o, key) ==
    IF o.t = "obj" /\ \E i \in 1..Len(o.v) : o.v[i].k = key
    THEN o.v[CHOOSE i \in 1..Len(o.v) : o.v[i].k = key].v
    ELSE Undef

\* Property write o.k = value on a list of entries: an existing key keeps
\* its position, a new key goes last.
SetEntry(entries, key, value) ==
    IF \E i \in 1..Len(entries) : entries[i].k = key
    THEN [i \in 1..Len(entries) |->
            IF entries[i].k = key THEN Entry(key, value) ELSE entries[i]]
    ELSE Append(entries, Entry(key, value))

\* ------------------------------------------------------------------------
\* Characters
\* ------------------------------------------------------------------------
LowerOf ==
    [c \in {"A","B","C","D","E","F","G","H","I","J","K","L","M","N","O","P",
            "Q","R","S","T","U","V","W","X","Y","Z"} |->
        CASE c = "A" -> "a" [] c = "B" -> "b" [] c = "C" -> "c" [] c = "D" -> "d"
          [] c = "E" -> "e" [] c = "F" -> "f" [] c = "G" -> "g" [] c = "H" -> "h"
          [] c = "I" -> "i" [] c = "J" -> "j" [] c = "K" -> "k" [] c = "L" -> "l"
          [] c = "M" -> "m" [] c = "N" -> "n" [] c = "O" -> "o" [] c = "P" -> "p"
          [] c = "Q" -> "q" [] c = "R" -> "r" [] c = "S" -> "s" [] c = "T" -> "t"
          [] c = "U" -> "u" [] c = "V" -> "v" [] c = "W" -> "w" [] c = "X" -> "x"
          [] c = "Y" -> "y" [] c = "Z" -> "z"]

\* String.prototype.toLowerCase on a character sequence.
ToLowerCase(cs) ==
    [i \in 1..Len(cs) |-> IF cs[i] \in DOMAIN LowerOf THEN LowerOf[cs[i]] ELSE cs[i]]

StartsWith(cs, prefix) ==
    Len(cs) >= Len(prefix) /\ SubSeq(cs, 1, Len(prefix)) = prefix

\* cs.replace(/^prefix/, "")
StripPrefix(cs, prefix) ==
    IF StartsWith(cs, prefix) THEN SubSeq(cs, Len(prefix) + 1, Len(cs)) ELSE cs

\* The character sequence as one TLA+ string.
RECURSIVE Text(_)
Text(cs) == IF cs = <<>> THEN "" ELSE Head(cs) \o Text(Tail(cs))

\* ------------------------------------------------------------------------
\* stripUrl (apollo-client.ts)
\* ------------------------------------------------------------------------
HttpPrefix == <<"h","t","t","p",":","/","/">>
HttpsPrefix == <<"h","t","t","p","s",":","/","/">>
WwwPrefix == <<"w","w","w",".">>

\* url.replace(/^https?:\/\//, "")
StripProtocol(cs) ==
    IF StartsWith(cs, HttpsPrefix) THEN StripPrefix(cs, HttpsPrefix)
    ELSE StripPrefix(cs, HttpPrefix)

\* stripped.replace(/\/$/, "")
StripTrailingSlash(cs) ==
    IF Len(cs) > 0 /\ cs[Len(cs)] = "/" THEN SubSeq(cs, 1, Len(cs) - 1) ELSE cs

\* stripUrl on a string value or undefined: undefined for a falsy argument,
\* else protocol, "www." and one trailing slash removed, then lower-cased.
stripUrl(url) ==
    IF ~Truthy(url) THEN Undef
    ELSE Str(ToLowerCase(StripTrailingSlash(StripPrefix(StripProtocol(url.v), WwwPrefix))))

\* ------------------------------------------------------------------------
\* sanitizeRanges (index.ts)
\* ------------------------------------------------------------------------
Includes(cs, c) == \E i \in 1..Len(cs) : cs[i] = c

\* cs.replace(from, to) with a string pattern: the first occurrence only.
ReplaceFirst(cs, from, to) ==
    IF Includes(cs, from)
    THEN LET p == CHOOSE i \in 1..Len(cs) :
                      cs[i] = from /\ \A j \in 1..(i - 1) : cs[j] # from
         IN [i \in 1..Len(cs) |-> IF i = p THEN to ELSE cs[i]]
    ELSE cs
\* Variant of sanitizeRange that leaves every element as it is.
KeepRange(range) == range

sanitizeRange(range) ==
    IF range.t = "str" /\ Includes(range.v, "-")
    THEN Str(ReplaceFirst(range.v, "-", ","))
    ELSE range

sanitizeRanges(ranges) ==
    IF ~Truthy(ranges) \/ ~IsArray(ranges) THEN ranges
    ELSE Arr([i \in 1..Len(ranges.v) |-> sanitizeRange(ranges.v[i])])

\* ------------------------------------------------------------------------
\* ApolloClient.formatQueryParams (apollo-client.ts)
\* The accumulator is [threw, params]: params are the entries of
\* formattedParams so far, threw is set once a statement has raised a
\* TypeError (the rest of the loop is then not executed).
\* ------------------------------------------------------------------------
\* One iteration of value.forEach: create the array slot unless the slot is
\* truthy, then call push on whatever the slot holds.
PushItem(acc, paramKey, item) ==
    IF acc.threw THEN acc
    ELSE LET slot == Get(Obj(acc.params), paramKey)
             ready == IF Truthy(slot) THEN acc.params
                      ELSE SetEntry(acc.params, paramKey, Arr(<<>>))
             cur == Get(Obj(ready), paramKey)
         IN IF IsArray(cur)
            THEN [threw |-> FALSE,
                  params |-> SetEntry(ready, paramKey, Arr(Append(cur.v, item)))]
            ELSE [threw |-> TRUE, params |-> ready]

RECURSIVE PushItems(_, _, _)
PushItems(acc, paramKey, items) ==
    IF items = <<>> THEN acc
    ELSE PushItems(PushItem(acc, paramKey, Head(items)), paramKey, Tail(items))

\* The inner loop over the sub-fields of a nested object.
RECURSIVE PutSubFields(_, _, _)
PutSubFields(acc, key, subs) ==
    IF subs = <<>> THEN acc
    ELSE LET s == Head(subs)
             next == IF ~IsNullish(s.v)
                     THEN [acc EXCEPT !.params =
                              SetEntry(acc.params, key \o "[" \o s.k \o "]", s.v)]
                     ELSE acc
         IN PutSubFields(next, key, Tail(subs))

\* The loop body for one [key, value] of Object.entries(query).
FormatEntry(acc, key, value) ==
    IF acc.threw \/ IsNullish(value) THEN acc
    ELSE IF IsArray(value) THEN PushItems(acc, key \o "[]", value.v)
    ELSE IF value.t = "obj" THEN PutSubFields(acc, key, value.v)
    ELSE [acc EXCEPT !.params = SetEntry(acc.params, key, value)]

RECURSIVE FormatEntries(_, _)
FormatEntries(acc, entries) ==
    IF entries = <<>> THEN acc
    ELSE FormatEntries(FormatEntry(acc, Head(entries).k, Head(entries).v), Tail(entries))

formatQueryParams(query) ==
    FormatEntries([threw |-> FALSE, params |-> <<>>], query.v)

\* ------------------------------------------------------------------------
\* JSON.stringify(value, null, 2)
\* ------------------------------------------------------------------------
RECURSIVE Stringify(_, _)
RECURSIVE StringifyItems(_, _)
RECURSIVE StringifyProps(_, _, _)

\* The elements of an array, one per line; undefined prints as null.
StringifyItems(items, indent) ==
    IF items = <<>> THEN ""
    ELSE indent
         \o (IF Head(items).t = "undef" THEN "null" ELSE Stringify(Head(items), indent))
         \o (IF Len(items) > 1 THEN ",\n" ELSE "\n")
         \o StringifyItems(Tail(items), indent)

\* The properties of an object, one per line; undefined properties are left
\* out (first tells whether a property has been printed yet).
StringifyProps(props, indent, first) ==
    IF props = <<>> THEN ""
    ELSE IF Head(props).v.t = "undef" THEN StringifyProps(Tail(props), indent, first)
    ELSE (IF first THEN "" ELSE ",\n")
         \o indent \o "\"" \o Head(props).k \o "\": " \o Stringify(Head(props).v, indent)
         \o StringifyProps(Tail(props), indent, FALSE)

Stringify(x, indent) ==
    CASE x.t = "null" -> "null"
      [] x.t = "bool" -> IF x.v THEN "true" ELSE "false"
      [] x.t = "num" -> ToString(x.v)
      [] x.t = "str" -> "\"" \o Text(x.v) \o "\""
      [] x.t = "arr" ->
            IF x.v = <<>> THEN "[]"
            ELSE "[\n" \o StringifyItems(x.v, indent \o "  ") \o indent \o "]"
      [] x.t = "obj" ->
            LET body == StringifyProps(x.v, indent \o "  ", TRUE)
            IN IF body = "" THEN "{}" ELSE "{\n" \o body \o "\n" \o indent \o "}"

JSONstringify(x) == Stringify(x, "")

\* ------------------------------------------------------------------------
\* Upstream replies (axios)
\* A reply is [kind, status, data, message]: kind "transport" is a request
\* that got no response; kind "http" carries the status and the parsed body.
\* axios resolves the promise for a 2xx status and rejects it otherwise.
\* ------------------------------------------------------------------------
HTTP_OK == 200

Resolves(reply) == reply.kind = "http" /\ reply.status >= 200 /\ reply.status < 300

\* error.message of the rejection.
RejectionMessage(reply) ==
    IF reply.kind = "transport" THEN reply.message
    ELSE "Request failed with status code " \o ToString(reply.status)

HttpReplyOf(status, data) ==
    [kind |-> "http", status |-> status, data |-> data, message |-> ""]

TransportFailure ==
    [kind |-> "transport", status |-> 0, data |-> Undef, message |-> "connect ECONNREFUSED"]

\* ------------------------------------------------------------------------
\* Outbound requests
\* ------------------------------------------------------------------------
BaseUrl == "https://api.apollo.io/api/v1"

Request(method, url, body, params) ==
    [method |-> method, url |-> url, body |-> body, params |-> params]

\* `${x}` in a template literal.
TemplateText(x) ==
    CASE x.t = "undef" -> "undefined"
      [] x.t = "null" -> "null"
      [] x.t = "str" -> Text(x.v)
      [] x.t = "num" -> ToString(x.v)
      [] x.t = "bool" -> IF x.v THEN "true" ELSE "false"
      [] x.t = "obj" -> "[object Object]"

\* A step of a client method ends either by issuing a request and awaiting
\* its reply, or by returning a value; raised lists the messages of the
\* exceptions raised (and caught by the method) on the way.
Awaiting(request, stage) ==
    [out |-> "request", request |-> request, stage |-> stage,
     result |-> Undef, raised |-> <<>>]

Returning(result) ==
    [out |-> "return", request |-> Undef, stage |-> "none",
     result |-> result, raised |-> <<>>]

\* throw new Error(message) inside the method's try: the catch logs the
\* message and returns null.
Swallowed(message) ==
    [out |-> "return", request |-> Undef, stage |-> "none",
     result |-> JNull, raised |-> <<message>>]

\* ------------------------------------------------------------------------
\* ApolloClient: the enrichment, search and job-postings methods
\* ------------------------------------------------------------------------
peopleEnrichmentRequest(query) ==
    Request("POST", BaseUrl \o "/people/match", query, Undef)

bulkPeopleEnrichmentRequest(query) ==
    Request("POST", BaseUrl \o "/people/bulk_match", query, Undef)
\* Variant of organizationEnrichmentRequest that posts the query.
organizationEnrichmentPosted(query) ==
    Request("POST", BaseUrl \o "/organizations/enrich", query, Undef)

organizationEnrichmentRequest(query) ==
    Request("GET", BaseUrl \o "/organizations/enrich", Undef, query)

organizationJobPostingsRequest(organizationId) ==
    Request("GET",
            BaseUrl \o "/organizations/" \o TemplateText(organizationId) \o "/job_postings",
            Undef, Undef)

\* peopleSearch and organizationSearch up to the post: a TypeError raised
\* by formatQueryParams is caught by the method, which returns null.
SearchStart(url, query) ==
    LET formatted == formatQueryParams(query)
    IN IF formatted.threw
       THEN Swallowed("formattedParams[paramKey].push is not a function")
       ELSE Awaiting(Request("POST", url, Obj(<<>>), Obj(formatted.params)), "single")

peopleSearchStart(query) == SearchStart(BaseUrl \o "/mixed_people/search", query)

organizationSearchStart(query) == SearchStart(BaseUrl \o "/mixed_companies/search", query)

\* A faulty variant of PassThroughAfterReply: the body of a resolved reply
\* is dropped.
PassThroughDropsBody(reply) ==
    IF Resolves(reply) THEN Returning(JNull) ELSE Swallowed(RejectionMessage(reply))

\* What the six methods above do with the reply: the body for status 200,
\* null for any other status axios resolves, null after a rejection.
PassThroughAfterReply(reply) ==
    IF Resolves(reply)
    THEN IF reply.status = HTTP_OK THEN Returning(reply.data) ELSE Returning(JNull)
    ELSE Swallowed(RejectionMessage(reply))

\* ------------------------------------------------------------------------
\* ApolloClient.getPersonEmail
\* (the payload's cacheKey, the time of the call, is left out)
\* ------------------------------------------------------------------------
Analytics ==
    <<"S","e","a","r","c","h","e","r",":"," ","I","n","d","i","v","i","d","u","a","l"," ","A","d","d">>
    \o <<" ","B","u","t","t","o","n">>
AccessEmail == <<"A","c","c","e","s","s"," ","e","m","a","i","l">>

getPersonEmailStart(apolloId) ==
    IF ~Truthy(apolloId) THEN Swallowed("Apollo ID is required")
    ELSE Awaiting(
            Request("POST",
                    "https://app.apollo.io/api/v1/mixed_people/add_to_my_prospects",
                    Obj(<<Entry("entity_ids", Arr(<<apolloId>>)),
                          Entry("analytics_context", Str(Analytics)),
                          Entry("skip_fetching_people", Bool(TRUE)),
                          Entry("cta_name", Str(AccessEmail))>>),
                    Undef),
            "email")

\* Variant of ContactEmails that hands the contact records on as received.
ContactsAsReceived(data) ==
    IF IsNullish(Get(data, "contacts")) THEN Arr(<<>>) ELSE Get(data, "contacts")

\* (response?.data?.contacts ?? []).map((item) => item.email)
ContactEmails(data) ==
    LET contacts == IF IsNullish(Get(data, "contacts")) THEN Arr(<<>>)
                    ELSE Get(data, "contacts")
    IN Arr([i \in 1..Len(contacts.v) |-> Get(contacts.v[i], "email")])

getPersonEmailAfterReply(reply) ==
    IF ~Resolves(reply) THEN Swallowed(RejectionMessage(reply))
    ELSE IF ~Truthy(reply.data) THEN Swallowed("No data received from Apollo API")
    ELSE Returning(ContactEmails(reply.data))

\* ------------------------------------------------------------------------
\* ApolloClient.employeesOfCompany
\* ------------------------------------------------------------------------
\* cs.split(sep) for a one-character separator.
RECURSIVE Split(_, _)
Split(cs, sep) ==
    IF ~Includes(cs, sep) THEN <<cs>>
    ELSE LET p == CHOOSE i \in 1..Len(cs) :
                      cs[i] = sep /\ \A j \in 1..(i - 1) : cs[j] # sep
         IN <<SubSeq(cs, 1, p - 1)>> \o Split(SubSeq(cs, p + 1, Len(cs)), sep)

\* cs.trim(), with the blank as the only white space.
RECURSIVE Trim(_)
Trim(cs) ==
    IF cs = <<>> THEN cs
    ELSE IF Head(cs) = " " THEN Trim(Tail(cs))
    ELSE IF cs[Len(cs)] = " " THEN Trim(SubSeq(cs, 1, Len(cs) - 1))
    ELSE cs

\* text.split(",").map((item) => item.trim())
SplitTrimmed(text) ==
    LET parts == Split(text.v, ",")
    IN Arr([i \in 1..Len(parts) |-> Str(Trim(parts[i]))])

employeesOfCompanyStart(query) ==
    IF ~Truthy(Get(query, "company")) THEN Swallowed("Company name is required")
    ELSE Awaiting(
            Request("POST", "https://api.apollo.io/v1/mixed_companies/search",
                    Obj(<<Entry("q_organization_name", Get(query, "company")),
                          Entry("page", Num(1)),
                          Entry("limit", Num(100))>>),
                    Undef),
            "orgSearch")

\* The predicate of organizations.filter.
MatchesCompany(item, strippedLinkedinUrl, strippedWebsiteUrl) ==
    LET companyLinkedin == stripUrl(Get(item, "linkedin_url"))
        companyWebsite == stripUrl(Get(item, "website_url"))
    IN \/ /\ Truthy(strippedLinkedinUrl)
          /\ Truthy(companyLinkedin)
          /\ companyLinkedin = strippedLinkedinUrl
       \/ /\ Truthy(strippedWebsiteUrl)
          /\ Truthy(companyWebsite)
          /\ companyWebsite = strippedWebsiteUrl

\* A faulty variant of ChosenCompany: the URL filter is ignored.
FirstCompany(organizations, strippedLinkedinUrl, strippedWebsiteUrl) ==
    organizations[1]

\* companyObjs.length > 0 ? companyObjs[0] : organizations[0]
ChosenCompany(organizations, strippedLinkedinUrl, strippedWebsiteUrl) ==
    LET companyObjs ==
            SelectSeq(organizations,
                      LAMBDA item :
                          MatchesCompany(item, strippedLinkedinUrl, strippedWebsiteUrl))
    IN IF Len(companyObjs) > 0 THEN companyObjs[1] ELSE organizations[1]

\* A faulty variant of CompanyIdMissing: the check is left out.
CompanyIdNeverChecked(companyId) == FALSE

\* if (!companyId) throw ...
CompanyIdMissing(companyId) == ~Truthy(companyId)

\* organizations.length === 0
NoOrganizations(organizations) == Len(organizations.v) = 0

\* peopleSearchPayload with its two optional filters.
PeopleSearchPayload(query, companyId) ==
    LET base == <<Entry("organization_ids", Arr(<<companyId>>)),
                  Entry("page", Num(1)),
                  Entry("limit", Num(100))>>
        withTitles ==
            IF Truthy(Get(query, "person_seniorities"))
            THEN SetEntry(base, "person_titles",
                          SplitTrimmed(Get(query, "person_seniorities")))
            ELSE base
        withStatus ==
            IF Truthy(Get(query, "contact_email_status"))
            THEN SetEntry(withTitles, "contact_email_status_v2",
                          SplitTrimmed(Get(query, "contact_email_status")))
            ELSE withTitles
    IN Obj(withStatus)

PeopleSearchRequest(query, companyId) ==
    Request("POST", "https://api.apollo.io/v1/mixed_people/search",
            PeopleSearchPayload(query, companyId), Undef)

\* From the reply of the organization search to the people search request.
employeesAfterOrgSearch(query, reply) ==
    IF ~Resolves(reply) THEN Swallowed(RejectionMessage(reply))
    ELSE IF ~Truthy(reply.data) THEN Swallowed("No data received from Apollo API")
    ELSE LET organizations == Get(reply.data, "organizations")
         IN IF organizations.t = "undef"
            THEN Swallowed("Cannot read properties of undefined (reading 'length')")
            ELSE IF NoOrganizations(organizations)
            THEN Swallowed("No organizations found")
            ELSE LET companyObj ==
                         ChosenCompany(organizations.v,
                                       stripUrl(Get(query, "linkedin_url")),
                                       stripUrl(Get(query, "website_url")))
                     companyId == Get(companyObj, "id")
                 IN IF CompanyIdMissing(companyId)
                    THEN Swallowed("Could not determine company ID")
                    ELSE Awaiting(PeopleSearchRequest(query, companyId), "peopleSearch")

\* return peopleResponse.data.people || []
employeesAfterPeopleSearch(reply) ==
    IF ~Resolves(reply) THEN Swallowed(RejectionMessage(reply))
    ELSE IF ~Truthy(reply.data) THEN Swallowed("No data received from Apollo API")
    ELSE IF Truthy(Get(reply.data, "people")) THEN Returning(Get(reply.data, "people"))
    ELSE Returning(Arr(<<>>))

\* ------------------------------------------------------------------------
\* The call-tool handler (index.ts)
\* ------------------------------------------------------------------------
ToolNames ==
    {"people_enrichment", "organization_enrichment", "people_search",
     "organization_search", "organization_job_postings", "get_person_email",
     "employees_of_company", "bulk_people_enrichment"}

\* The cases of the switch that serialize the client's result as it is.
PassThroughTools ==
    {"people_enrichment", "bulk_people_enrichment", "organization_enrichment",
     "people_search", "organization_search", "organization_job_postings"}

\* A faulty variant of SanitizedArgs: the ranges are rewritten for every tool.
SanitizedForEveryTool(toolName, args) ==
    IF Truthy(Get(args, "organization_num_employees_ranges"))
    THEN Obj(SetEntry(args.v, "organization_num_employees_ranges",
                      sanitizeRanges(Get(args, "organization_num_employees_ranges"))))
    ELSE args

\* The sanitization before the switch.
SanitizedArgs(toolName, args) ==
    IF toolName = "organization_search"
       /\ Truthy(Get(args, "organization_num_employees_ranges"))
    THEN Obj(SetEntry(args.v, "organization_num_employees_ranges",
                      sanitizeRanges(Get(args, "organization_num_employees_ranges"))))
    ELSE args

\* What the handler itself throws before it calls the client: "" for none.
\* (McpError prefixes its message with "MCP error <code>: ".)
HandlerThrows(toolName, args) ==
    IF toolName = "bulk_people_enrichment"
    THEN IF ~Truthy(Get(args, "details")) \/ ~IsArray(Get(args, "details"))
         THEN "The 'details' array is required for bulk people enrichment"
         ELSE ""
    ELSE IF toolName \notin ToolNames
    THEN "MCP error -32601: Unknown tool: " \o toolName
    ELSE ""

\* The client method of a tool, up to its first await or its return.
ClientStart(toolName, args) ==
    CASE toolName = "people_enrichment" ->
            Awaiting(peopleEnrichmentRequest(args), "single")
      [] toolName = "bulk_people_enrichment" ->
            Awaiting(bulkPeopleEnrichmentRequest(args), "single")
      [] toolName = "organization_enrichment" ->
            Awaiting(organizationEnrichmentRequest(args), "single")
      [] toolName = "people_search" -> peopleSearchStart(args)
      [] toolName = "organization_search" -> organizationSearchStart(args)
      [] toolName = "organization_job_postings" ->
            Awaiting(organizationJobPostingsRequest(Get(args, "organization_id")), "single")
      [] toolName = "get_person_email" -> getPersonEmailStart(Get(args, "apollo_id"))
      [] toolName = "employees_of_company" -> employeesOfCompanyStart(args)

\* A faulty variant of ClientResume: a failed organization search is issued
\* again.
ClientResumeRetrying(args, stage, reply) ==
    IF stage = "orgSearch" /\ ~Resolves(reply) THEN employeesOfCompanyStart(args)
    ELSE CASE stage = "single" -> PassThroughAfterReply(reply)
           [] stage = "email" -> getPersonEmailAfterReply(reply)
           [] stage = "orgSearch" -> employeesAfterOrgSearch(args, reply)
           [] stage = "peopleSearch" -> employeesAfterPeopleSearch(reply)

\* The client method from the reply it awaited to its next await or return.
ClientResume(args, stage, reply) ==
    CASE stage = "single" -> PassThroughAfterReply(reply)
      [] stage = "email" -> getPersonEmailAfterReply(reply)
      [] stage = "orgSearch" -> employeesAfterOrgSearch(args, reply)
      [] stage = "peopleSearch" -> employeesAfterPeopleSearch(reply)

\* A response is [kind, content, isError, tools]: the content items and the
\* error flag of a call-tool result, the descriptors of a list-tools result.
NoResponse == [kind |-> "none", content |-> <<>>, isError |-> FALSE, tools |-> <<>>]

\* return { content: [{ type: "text", text: JSON.stringify(result, null, 2) }] }
ToolResponse(result) ==
    [kind |-> "result",
     content |-> <<[type |-> "text", text |-> JSONstringify(result)]>>,
     isError |-> FALSE,
     tools |-> <<>>]

\* The handler's catch block.
HandlerCatch(message) ==
    [kind |-> "result",
     content |-> <<[type |-> "text", text |-> "Apollo.io API error: " \o message]>>,
     isError |-> TRUE,
     tools |-> <<>>]

\* The tools array of the listing that has no bulk_people_enrichment.
ToolCatalogWithoutBulk ==
    <<[name |-> "people_enrichment", required |-> {}],
      [name |-> "organization_enrichment", required |-> {}],
      [name |-> "people_search", required |-> {}],
      [name |-> "organization_search", required |-> {}],
      [name |-> "organization_job_postings", required |-> {"organization_id"}],
      [name |-> "get_person_email", required |-> {"apollo_id"}],
      [name |-> "employees_of_company", required |-> {"company"}]>>

\* The tools array of the list-tools handler: each descriptor's name and the
\* required properties of its input schema, in the order of the listing.
ToolCatalog ==
    <<[name |-> "people_enrichment", required |-> {}],
      [name |-> "organization_enrichment", required |-> {}],
      [name |-> "people_search", required |-> {}],
      [name |-> "organization_search", required |-> {}],
      [name |-> "organization_job_postings", required |-> {"organization_id"}],
      [name |-> "get_person_email", required |-> {"apollo_id"}],
      [name |-> "employees_of_company", required |-> {"company"}],
      [name |-> "bulk_people_enrichment", required |-> {"details"}]>>

\* return { tools }
ToolsResponse ==
    [kind |-> "tools", content |-> <<>>, isError |-> FALSE, tools |-> ToolCatalog]

\* ------------------------------------------------------------------------
\* Inputs: the requests of the host and the replies of the upstream API
\* ------------------------------------------------------------------------
MaxFields == 2
MaxItems == 2
MaxOrgs == 2
MaxContacts == 2

SeqsUpTo(S, n) == UNION {[1..k -> S] : k \in 0..n}

DistinctKeys(entries) ==
    \A i, j \in 1..Len(entries) : entries[i].k = entries[j].k => i = j

Acme == Str(<<"A","c","m","e">>)
Ceo == Str(<<"c","e","o">>)
Cto == Str(<<"c","t","o">>)
EmailA == Str(<<"a","@","x",".","c","o">>)
EmailB == Str(<<"b","@","x",".","c","o">>)
IdP1 == Str(<<"p","1">>)
IdO1 == Str(<<"o","1">>)
IdO2 == Str(<<"o","2">>)
Empty == Str(<<>>)

\* Filter fields of the two search tools: an array field, scalar fields
\* that carry the array's flattened key, a nested range, a scalar that
\* carries the range's flattened key, a plain scalar, a null field and the
\* employee-count ranges.
FilterPool ==
    {Entry("person_titles", Arr(a)) : a \in SeqsUpTo({Ceo, Cto}, MaxItems)}
    \cup {Entry("person_titles[]", Ceo), Entry("person_titles[]", Num(0))}
    \cup {Entry("revenue_range", Obj(<<Entry("min", Num(1)), Entry("max", Num(2))>>)),
          Entry("revenue_range", Obj(<<Entry("min", JNull), Entry("max", Num(2))>>)),
          Entry("revenue_range", Obj(<<Entry("min", Num(1))>>))}
    \cup {Entry("revenue_range[min]", Num(7)),
          Entry("page", Num(1)),
          Entry("q_keywords", JNull)}
    \cup {Entry("organization_num_employees_ranges",
                Arr(<<Str(<<"1","1","-","5","0">>), Str(<<"1",",","1","0">>)>>)),
          Entry("organization_num_employees_ranges",
                Arr(<<Num(5), Str(<<"1","-","5","-","9">>)>>))}

FilterObjects ==
    {Obj(f) : f \in {g \in SeqsUpTo(FilterPool, MaxFields) : DistinctKeys(g)}}

EnrichmentArgs == {Obj(<<>>), Obj(<<Entry("email", EmailA)>>)}

\* "Array of people to enrich (max 10)" in the tool's input schema.
BulkLimit == 10

BulkArgs ==
    {Obj(<<>>),
     Obj(<<Entry("details", EmailA)>>),
     Obj(<<Entry("details", Arr(<<>>))>>),
     Obj(<<Entry("details", Arr(<<Obj(<<Entry("email", EmailA)>>)>>))>>),
     Obj(<<Entry("details", Arr([i \in 1..BulkLimit |-> Obj(<<Entry("email", EmailA)>>)]))>>),
     Obj(<<Entry("details",
                 Arr([i \in 1..(BulkLimit + 1) |-> Obj(<<Entry("email", EmailA)>>)]))>>)}

JobPostingsArgs ==
    {Obj(<<>>), Obj(<<Entry("organization_id", Empty)>>),
     Obj(<<Entry("organization_id", IdO1)>>)}

PersonEmailArgs ==
    {Obj(<<>>), Obj(<<Entry("apollo_id", Empty)>>), Obj(<<Entry("apollo_id", IdP1)>>)}

\* URLs the caller supplies, and URLs of the candidates upstream returns.
CallerLinkedin == {Undef, Str(<<"h","t","t","p","s",":","/","/","w","w","w",".","L","i","n","k","e","d","i","n",".","c","o","m","/","c","o","m","p","a","n","y","/","A","c","m","e","/">>)}
CallerWebsite ==
    {Undef, Str(<<"b",".","c","o">>), Str(<<"W","w","w",".","B",".","c","o","/">>),
     Str(<<"b",".","c","o","/","/">>), Str(<<"h","t","t","p","s",":","/","/">>)}
CandidateUrls ==
    {<<Undef, Undef>>,
     <<Str(<<"h","t","t","p",":","/","/","l","i","n","k","e","d","i","n",".","c","o","m","/","c","o","m","p","a","n","y","/","a","c","m","e">>), Undef>>,
     <<Undef, Str(<<"w","w","w",".","B",".","c","o","/">>)>>,
     <<Str(<<"/">>), Str(<<"/">>)>>}

\* An object with the given properties, undefined ones left out.
ObjOf(entries) == Obj(SelectSeq(entries, LAMBDA e : e.v.t # "undef"))

EmployeesArgs ==
    {ObjOf(<<Entry("company", c), Entry("website_url", w), Entry("linkedin_url", l),
             Entry("person_seniorities", s)>>) :
        c \in {Undef, Empty, Acme}, w \in CallerWebsite, l \in CallerLinkedin,
        s \in {Undef, Str(<<"s","e","n","i","o","r",","," ","v","p">>)}}

Candidates ==
    {ObjOf(<<Entry("id", id), Entry("linkedin_url", u[1]), Entry("website_url", u[2])>>) :
        id \in {Undef, IdO1, IdO2}, u \in CandidateUrls}

ArgsOf(toolName) ==
    CASE toolName \in {"people_enrichment", "organization_enrichment"} -> EnrichmentArgs
      [] toolName = "bulk_people_enrichment" -> BulkArgs
      [] toolName \in {"people_search", "organization_search"} -> FilterObjects
      [] toolName = "organization_job_postings" -> JobPostingsArgs
      [] toolName = "get_person_email" -> PersonEmailArgs
      [] toolName = "employees_of_company" -> EmployeesArgs
      [] OTHER -> {Obj(<<>>)}

RequestNames == ToolNames \cup {"delete_everything"}

SampleBody == Obj(<<Entry("person", Obj(<<Entry("id", IdP1), Entry("email", EmailA)>>))>>)
ErrorBody == Obj(<<Entry("error", Str(<<"n","o","t"," ","f","o","u","n","d">>))>>)
Person == Obj(<<Entry("id", IdP1)>>)
Contacts ==
    SeqsUpTo({Obj(<<Entry("id", IdP1), Entry("email", EmailA)>>),
              Obj(<<Entry("email", EmailB)>>),
              Obj(<<Entry("id", IdP1)>>)}, MaxContacts)

\* The bodies upstream may send for the request awaited at a stage.
BodiesAt(stage) ==
    CASE stage = "single" -> {JNull, Obj(<<>>), SampleBody}
      [] stage = "email" ->
            {JNull, Obj(<<>>)} \cup {Obj(<<Entry("contacts", Arr(c))>>) : c \in Contacts}
      [] stage = "orgSearch" ->
            {JNull, Obj(<<>>)}
            \cup {Obj(<<Entry("organizations", Arr(o))>>) : o \in SeqsUpTo(Candidates, MaxOrgs)}
      [] stage = "peopleSearch" ->
            {JNull, Obj(<<>>), Obj(<<Entry("people", Arr(<<>>))>>),
             Obj(<<Entry("people", Arr(<<Person>>))>>)}

RepliesAt(stage) ==
    IF stage = "none" THEN {}
    ELSE {HttpReplyOf(HTTP_OK, b) : b \in BodiesAt(stage)}
         \cup {HttpReplyOf(201, SampleBody), HttpReplyOf(404, ErrorBody), TransportFailure}

\* ------------------------------------------------------------------------
\* State
\* ------------------------------------------------------------------------
VARIABLES
    pc,        \* "idle", "await" (an upstream request is in flight), "done"
               \* (a call-tool response is ready), "listed" (a list-tools one)
    req,       \* the call-tool request being handled: [name, arguments]
    args,      \* the handler's args object (after its sanitization)
    stage,     \* which await of the client method is pending
    httpLog,   \* the outbound requests of this invocation, in order
    replies,   \* the upstream replies of this invocation, in order
    raised,    \* messages of the exceptions raised while handling, in order
    resp,      \* what the handler returned to the host
    failedBefore,  \* history: an earlier invocation of this process raised
                   \* an exception (in the handler or in the client)
    calls,     \* overlapping invocations: for each, the handler's locals
               \* [pc, req, args, stage, httpLog, replies, raised, resp]
    apiKey     \* this.apiKey of the one ApolloClient all invocations use

\* The variables of the invocation followed alone, and those of the
\* overlapping invocations.
aloneVars == <<pc, req, args, stage, httpLog, replies, raised, resp, failedBefore>>
overlapVars == <<calls, apiKey>>
vars == <<pc, req, args, stage, httpLog, replies, raised, resp, failedBefore, calls, apiKey>>

NoRequest == [name |-> "", arguments |-> Obj(<<>>)]

\* The invocations that may be in progress at the same time.
MaxCalls == 2
Calls == 1..MaxCalls

\* The handler's locals when no invocation uses them.
IdleCall ==
    [pc |-> "idle", req |-> NoRequest, args |-> Obj(<<>>), stage |-> "none",
     httpLog |-> <<>>, replies |-> <<>>, raised |-> <<>>, resp |-> NoResponse]

\* The credential the constructor stored.
StartupKey == "key-at-startup"

Init ==
    /\ pc = "idle"
    /\ req = NoRequest
    /\ args = Obj(<<>>)
    /\ stage = "none"
    /\ httpLog = <<>>
    /\ replies = <<>>
    /\ raised = <<>>
    /\ resp = NoResponse
    /\ failedBefore = FALSE
    /\ calls = [i \in Calls |-> IdleCall]
    /\ apiKey = StartupKey

\* The outcome of a step of the client method: either the next request goes
\* out and the handler keeps awaiting, or the method returns and the handler
\* serializes its result.
Continue(step) ==
    IF step.out = "request"
    THEN /\ pc' = "await"
         /\ stage' = step.stage
         /\ httpLog' = Append(httpLog, step.request)
         /\ raised' = raised \o step.raised
         /\ resp' = NoResponse
    ELSE /\ pc' = "done"
         /\ stage' = "none"
         /\ httpLog' = httpLog
         /\ raised' = raised \o step.raised
         /\ resp' = ToolResponse(step.result)

\* The host delivers a call-tool request: the handler runs up to the first
\* await of the client method, or to its own return.
CallTool(toolName, arguments) ==
    /\ pc = "idle"
    /\ req' = [name |-> toolName, arguments |-> arguments]
    /\ replies' = <<>>
    /\ UNCHANGED failedBefore
    /\ UNCHANGED overlapVars
    /\ LET sanitized == SanitizedArgs(toolName, arguments)
           thrown == HandlerThrows(toolName, sanitized)
       IN /\ args' = sanitized
          /\ IF thrown # ""
             THEN /\ pc' = "done"
                  /\ stage' = "none"
                  /\ httpLog' = <<>>
                  /\ raised' = <<thrown>>
                  /\ resp' = HandlerCatch(thrown)
             ELSE Continue(ClientStart(toolName, sanitized))

\* The upstream reply to the request in flight arrives.
HttpReply(reply) ==
    /\ pc = "await"
    /\ replies' = Append(replies, reply)
    /\ Continue(ClientResume(args, stage, reply))
    /\ UNCHANGED <<req, args, failedBefore>>
    /\ UNCHANGED overlapVars

\* The host asks for the tools: the list-tools handler returns its array.
ListTools ==
    /\ pc = "idle"
    /\ pc' = "listed"
    /\ resp' = ToolsResponse
    /\ UNCHANGED <<req, args, stage, httpLog, replies, raised, failedBefore>>
    /\ UNCHANGED overlapVars

\* A faulty variant of Return: the process ends after a failed invocation.
ReturnExitsOnFailure ==
    /\ pc \in {"done", "listed"}
    /\ pc' = IF raised # <<>> THEN "exited" ELSE "idle"
    /\ req' = NoRequest
    /\ args' = Obj(<<>>)
    /\ stage' = "none"
    /\ httpLog' = <<>>
    /\ replies' = <<>>
    /\ raised' = <<>>
    /\ resp' = NoResponse
    /\ failedBefore' = (failedBefore \/ raised # <<>>)
    /\ UNCHANGED overlapVars

\* The response has been handed to the host; nothing of the invocation is
\* kept (the history variable records whether it had failed).
Return ==
    /\ pc \in {"done", "listed"}
    /\ pc' = "idle"
    /\ req' = NoRequest
    /\ args' = Obj(<<>>)
    /\ stage' = "none"
    /\ httpLog' = <<>>
    /\ replies' = <<>>
    /\ raised' = <<>>
    /\ resp' = NoResponse
    /\ failedBefore' = (failedBefore \/ raised # <<>>)
    /\ UNCHANGED overlapVars

Next ==
    \/ /\ pc = "idle"
       /\ \E toolName \in RequestNames : \E arguments \in ArgsOf(toolName) :
             CallTool(toolName, arguments)
    \/ ListTools
    \/ \E reply \in RepliesAt(stage) : HttpReply(reply)
    \/ Return

Spec == Init /\ [][Next]_vars

\* ------------------------------------------------------------------------
\* Vocabulary of the properties
\* ------------------------------------------------------------------------
\* The text of the single content item of the response.
ResponseText == resp.content[1].text

\* An error-flagged text payload.
ErrorFlagged == resp.kind = "result" /\ Len(resp.content) = 1 /\ resp.isError

\* A non-error text payload.
PlainPayload == resp.kind = "result" /\ Len(resp.content) = 1 /\ ~resp.isError

\* Some upstream call of the invocation ended in a non-2xx response or a
\* transport failure.
UpstreamFailed == \E i \in 1..Len(replies) : ~Resolves(replies[i])

\* (C1) Claim: when the upstream call of a tool ends in a non-2xx response or
\* a transport failure, the response is error-flagged and its text is
\* "Apollo.io API error: " followed by the underlying status/message; it is
\* never a non-error payload.
C1_UpstreamFailureIsErrorFlagged ==
    (pc = "done" /\ UpstreamFailed) =>
        /\ ErrorFlagged
        /\ ResponseText = "Apollo.io API error: " \o RejectionMessage(replies[Len(replies)])

\* (C2) Claim: a call-tool request whose name is not a registered tool is not
\* answered with the error-flagged "Apollo.io API error: ..." text payload
\* used for data failures (it is a protocol-level method-not-found).
C2_UnknownToolIsNotADataError ==
    (pc = "done" /\ req.name \notin ToolNames) =>
        ~(ErrorFlagged
          /\ ResponseText = "Apollo.io API error: MCP error -32601: Unknown tool: "
                            \o req.name)

\* (C3) Claim: whenever an exception was raised while handling a request
\* (argument validation or upstream call), the handler returns exactly one
\* response, error-flagged, with the text "Apollo.io API error: <message>".
C3_EveryExceptionIsErrorFlagged ==
    (pc = "done" /\ raised # <<>>) =>
        /\ ErrorFlagged
        /\ ResponseText = "Apollo.io API error: " \o raised[Len(raised)]

\* The required input of the request is missing or empty.
RequiredInputMissing ==
    \/ req.name = "employees_of_company" /\ ~Truthy(Get(req.arguments, "company"))
    \/ req.name = "get_person_email" /\ ~Truthy(Get(req.arguments, "apollo_id"))
    \/ req.name = "organization_job_postings"
       /\ ~Truthy(Get(req.arguments, "organization_id"))

\* (C4) Claim: an invocation whose required input (company, person id,
\* organization id) is missing or empty fails at once and issues no
\* outbound HTTP request.
C4_MissingInputIssuesNoRequest ==
    RequiredInputMissing => (pc = "done" /\ httpLog = <<>>)

\* The candidates of the organization search of an employees_of_company
\* invocation, in search order (none before the reply, or when the reply
\* carries no list).
OrgCandidates ==
    IF req.name = "employees_of_company" /\ Len(replies) >= 1 /\ Resolves(replies[1])
       /\ IsArray(Get(replies[1].data, "organizations"))
    THEN Get(replies[1].data, "organizations").v
    ELSE <<>>

\* The request of the invocation that went to the people search, if any.
PeopleSearchIssued ==
    req.name = "employees_of_company" /\ Len(httpLog) = 2

\* A candidate's URL equals the caller's corresponding URL after
\* normalization: LinkedIn against LinkedIn, or website against website.
UrlMatches(item, arguments) ==
    \E field \in {"linkedin_url", "website_url"} :
        /\ Truthy(Get(arguments, field))
        /\ Truthy(Get(item, field))
        /\ stripUrl(Get(item, field)) = stripUrl(Get(arguments, field))

\* As UrlMatches, for normalized forms that are not the empty string.
NonEmptyUrlMatches(item, arguments) ==
    \E field \in {"linkedin_url", "website_url"} :
        /\ Truthy(stripUrl(Get(arguments, field)))
        /\ Truthy(stripUrl(Get(item, field)))
        /\ stripUrl(Get(item, field)) = stripUrl(Get(arguments, field))

\* The first candidate in search order that matches, else the first candidate.
PreferredIndex(candidates, arguments, Matches(_, _)) ==
    IF \E i \in 1..Len(candidates) : Matches(candidates[i], arguments)
    THEN CHOOSE i \in 1..Len(candidates) :
            /\ Matches(candidates[i], arguments)
            /\ \A j \in 1..(i - 1) : ~Matches(candidates[j], arguments)
    ELSE 1

\* The identifier the people search filters by.
SearchedOrganizationIds == Get(httpLog[2].body, "organization_ids")

\* The organization search returned a list, and the list is empty or the
\* candidate the operation chooses has no identifier.
NoUsableCompany ==
    /\ req.name = "employees_of_company" /\ Len(replies) >= 1 /\ Resolves(replies[1])
    /\ IsArray(Get(replies[1].data, "organizations"))
    /\ \/ OrgCandidates = <<>>
       \/ ~Truthy(Get(OrgCandidates[PreferredIndex(OrgCandidates, req.arguments,
                                                    NonEmptyUrlMatches)], "id"))

\* (C5) In employees_of_company a people-search request has been issued only
\* if the organization search returned at least one candidate and the chosen
\* candidate has an identifier; with zero candidates, or a chosen candidate
\* without id, the operation has failed (null result) after its one request.
C5_PeopleSearchOnlyForIdentifiedCompany ==
    /\ PeopleSearchIssued =>
          /\ Len(replies) >= 1
          /\ Len(OrgCandidates) > 0
          /\ \E i \in 1..Len(OrgCandidates) :
                /\ Truthy(Get(OrgCandidates[i], "id"))
                /\ SearchedOrganizationIds = Arr(<<Get(OrgCandidates[i], "id")>>)
    /\ NoUsableCompany =>
          /\ pc = "done"
          /\ Len(httpLog) = 1
          /\ PlainPayload /\ ResponseText = "null"

\* A chosen candidate without id ended the operation before the people search.
C5_Witness ==
    /\ NoUsableCompany
    /\ Len(OrgCandidates) = 2
    /\ pc = "done"
    /\ raised = <<"Could not determine company ID">>

ValidationMessages ==
    {"Company name is required", "Apollo ID is required",
     "No organizations found", "Could not determine company ID"}

\* (C7) Claim: every validation-class failure (missing company name, missing
\* person id, zero organizations found, chosen organization without id) is
\* answered with an error-flagged response carrying a textual message.
C7_ValidationFailureIsErrorFlagged ==
    (pc = "done" /\ \E i \in 1..Len(raised) : raised[i] \in ValidationMessages) =>
        ErrorFlagged

\* (C8) An invocation issues at most one outbound request for a non-compound
\* tool and at most two for employees_of_company (organization search, then
\* people search); after a failed reply no further request is issued.
C8_AtMostOneRequestEachNoRetry ==
    /\ Len(replies) <= Len(httpLog)
    /\ req.name # "employees_of_company" => Len(httpLog) <= 1
    /\ req.name = "employees_of_company" =>
          /\ Len(httpLog) <= 2
          /\ Len(httpLog) >= 1 =>
                httpLog[1].url = "https://api.apollo.io/v1/mixed_companies/search"
          /\ Len(httpLog) = 2 =>
                httpLog[2].url = "https://api.apollo.io/v1/mixed_people/search"
    /\ \A i \in 1..Len(replies) : ~Resolves(replies[i]) => Len(httpLog) = i

\* Both requests of the compound operation went out and the second failed.
C8_Witness ==
    /\ pc = "done"
    /\ PeopleSearchIssued
    /\ Len(replies) = 2
    /\ ~Resolves(replies[2])

\* The invocation of a pass-through tool got its one upstream reply.
PassThroughReplied ==
    pc = "done" /\ req.name \in PassThroughTools /\ Len(replies) = 1

\* The response is one non-error text item holding the pretty-printed body.
BodyPassedThrough ==
    /\ PlainPayload
    /\ resp.content[1].type = "text"
    /\ ResponseText = JSONstringify(replies[1].data)

C10_ArrayFieldFlattensInOrder ==
    (pc # "idle" /\ req.name \in {"people_search", "organization_search"}) =>
        \A i \in 1..Len(args.v) :
            IsArray(args.v[i].v) =>
                /\ Len(httpLog) = 1
                /\ LET entry == Get(httpLog[1].params, args.v[i].k \o "[]")
                   IN IF args.v[i].v.v = <<>>
                      THEN entry = Undef \/ Get(args, args.v[i].k \o "[]") # Undef
                      ELSE entry = args.v[i].v

\* The invocation is a search, whose query goes through formatQueryParams.
SearchInvoked ==
    pc # "idle" /\ req.name \in {"people_search", "organization_search"}

\* (C11) Claim: for every filter object with a one-level nested object field,
\* flattening yields exactly one entry per non-null sub-field, keyed
\* "field[sub]" with the sub-field's value, no entry for a null or absent
\* sub-field, and no entry under the bare parent key.
C11_NestedFieldFlattensPerSubField ==
    SearchInvoked =>
        \A i \in 1..Len(args.v) :
            args.v[i].v.t = "obj" =>
                /\ Len(httpLog) = 1
                /\ Get(httpLog[1].params, args.v[i].k) = Undef
                /\ \A j \in 1..Len(args.v[i].v.v) :
                      LET sub == args.v[i].v.v[j]
                          flatKey == args.v[i].k \o "[" \o sub.k \o "]"
                      IN IF IsNullish(sub.v)
                         THEN \/ Get(httpLog[1].params, flatKey) = Undef
                              \/ Get(args, flatKey) # Undef
                         ELSE Get(httpLog[1].params, flatKey) = sub.v

\* The claim's "null or absent": JSON null, or no value at all.
NullOrAbsent(x) == x \in {JNull, Undef}

\* The query without its top-level fields whose value is null or absent.
WithoutNullFields(query) ==
    Obj(SelectSeq(query.v, LAMBDA e : ~NullOrAbsent(e.v)))

\* The flat keys a top-level field can be written under.
FlatKeysOf(key, value) ==
    {key, key \o "[]"} \cup
    (IF value.t = "obj" THEN {key \o "[" \o value.v[j].k \o "]" : j \in 1..Len(value.v)}
     ELSE {})

\* A field of the query other than the i-th may write the flat key.
WrittenByOtherField(query, i, flatKey) ==
    \E j \in 1..Len(query.v) :
        j # i /\ ~NullOrAbsent(query.v[j].v) /\ flatKey \in FlatKeysOf(query.v[j].k, query.v[j].v)

\* (C12) A top-level field of a search's filter object whose value is null or
\* absent produces no query entry, whatever the other fields are: the request
\* goes out exactly when the flattening of the other fields succeeds, its
\* query entries are those of the filter object without the null fields, and
\* none of them is keyed by the null field.
C12_NullFieldProducesNoEntry ==
    SearchInvoked =>
        LET rest == formatQueryParams(WithoutNullFields(args))
        IN /\ rest.threw <=> httpLog = <<>>
           /\ httpLog # <<>> =>
                /\ httpLog[1].params = Obj(rest.params)
                /\ \A i \in 1..Len(args.v) :
                      NullOrAbsent(args.v[i].v) =>
                          \A n \in 1..Len(httpLog[1].params.v) :
                              LET flatKey == httpLog[1].params.v[n].k
                              IN flatKey \in FlatKeysOf(args.v[i].k, args.v[i].v)
                                     => WrittenByOtherField(args, i, flatKey)

\* A search whose filter object has a null field beside a field that is
\* flattened has issued its request.
C12_Witness ==
    /\ SearchInvoked
    /\ httpLog # <<>>
    /\ \E i \in 1..Len(args.v) : NullOrAbsent(args.v[i].v)
    /\ Len(httpLog[1].params.v) > 0

\* A range value in the form "min<sep>max": a string of two non-empty runs
\* of digits with the one separator between them.
Digits == {"0","1","2","3","4","5","6","7","8","9"}

IsRangeForm(x, sep) ==
    /\ x.t = "str"
    /\ \E p \in 2..(Len(x.v) - 1) :
          /\ x.v[p] = sep
          /\ \A i \in (1..Len(x.v)) \ {p} : x.v[i] \in Digits

HyphenForm(x) == IsRangeForm(x, "-")
CommaForm(x) == IsRangeForm(x, ",")

\* The hyphen-form string with its hyphen replaced by a comma.
AsCommaForm(x) ==
    Str([i \in 1..Len(x.v) |-> IF x.v[i] = "-" THEN "," ELSE x.v[i]])

\* The employee-count ranges of an organization search as the host sent
\* them and as the handler passes them on.
RangesSent == Get(req.arguments, "organization_num_employees_ranges")
RangesPassedOn == Get(args, "organization_num_employees_ranges")

RangesNormalized ==
    pc # "idle" /\ req.name = "organization_search" /\ IsArray(RangesSent)

\* (C13) Range normalization maps a list of range values to a list of the
\* same length and order: an element in hyphen form "min-max" becomes the
\* comma form "min,max", an element in comma form and a non-string element
\* are unchanged, and no element of the result is in hyphen form.
C13_RangesRewrittenToCommaForm ==
    RangesNormalized =>
        /\ IsArray(RangesPassedOn)
        /\ Len(RangesPassedOn.v) = Len(RangesSent.v)
        /\ \A i \in 1..Len(RangesSent.v) :
              LET before == RangesSent.v[i]
                  after == RangesPassedOn.v[i]
              IN /\ HyphenForm(before) => after = AsCommaForm(before)
                 /\ CommaForm(before) => after = before
                 /\ before.t # "str" => after = before
                 /\ ~HyphenForm(after)

\* An organization search with a hyphen-form range beside a comma-form one
\* has been sanitized.
C13_Witness ==
    /\ RangesNormalized
    /\ \E i \in 1..Len(RangesSent.v) : HyphenForm(RangesSent.v[i])
    /\ \E i \in 1..Len(RangesSent.v) : CommaForm(RangesSent.v[i])
    /\ httpLog # <<>>

\* The claim's URL normalization: lower-case first, then strip the scheme,
\* a leading "www." and one trailing slash.
NormalizeUrl(cs) ==
    StripTrailingSlash(StripPrefix(StripProtocol(ToLowerCase(cs)), WwwPrefix))

UrlFields == {"website_url", "linkedin_url"}

\* employees_of_company has passed its company check, so that stripUrl has
\* been applied to the caller's URLs.
EmployeesInvoked ==
    pc # "idle" /\ req.name = "employees_of_company" /\ httpLog # <<>>

\* (C14) Claim: URL normalization equals lower-casing the URL, then stripping
\* a leading scheme, a leading "www." and one trailing slash, and two URLs
\* that differ only in scheme, leading "www.", one trailing slash or letter
\* case normalize to the same string and are judged equal: every URL the
\* caller supplies to employees_of_company is normalized that way, and a
\* candidate whose URL has the same normal form gets the same stripUrl value.
C14_UrlNormalizedLowerCaseFirst ==
    EmployeesInvoked =>
        \A f \in UrlFields :
            Truthy(Get(args, f)) =>
                /\ stripUrl(Get(args, f)) = Str(NormalizeUrl(Get(args, f).v))
                /\ \A n \in 1..Len(OrgCandidates) :
                      LET theirs == Get(OrgCandidates[n], f)
                      IN (Truthy(theirs) /\ NormalizeUrl(theirs.v) = NormalizeUrl(Get(args, f).v))
                             => stripUrl(theirs) = stripUrl(Get(args, f))

\* The contact records of the reply to the get_person_email request: the
\* body's contacts list, none when the body has no such list.
ContactRecords ==
    IF IsArray(Get(replies[1].data, "contacts"))
    THEN Get(replies[1].data, "contacts").v
    ELSE <<>>

\* get_person_email got a response with a body for a non-empty person id.
EmailLookupAnswered ==
    /\ pc = "done"
    /\ req.name = "get_person_email"
    /\ Len(replies) = 1
    /\ Resolves(replies[1])
    /\ replies[1].data.t = "obj"

\* (C15) For get_person_email with a non-empty person id and an upstream
\* response whose contact records are c1..cn, the result is exactly the list
\* of the email fields of c1..cn in that order (the empty list when there
\* are no contact records), and nothing else of the response is returned.
C15_EmailsOfContactsInOrder ==
    EmailLookupAnswered =>
        /\ PlainPayload
        /\ ResponseText =
               JSONstringify(Arr([i \in 1..Len(ContactRecords) |->
                                     Get(ContactRecords[i], "email")]))

\* The lookup returned two different addresses of two contact records, one
\* of which carries an id as well.
C15_Witness ==
    /\ EmailLookupAnswered
    /\ Len(ContactRecords) = 2
    /\ Get(ContactRecords[1], "email") = EmailB
    /\ Get(ContactRecords[2], "email") = EmailA
    /\ Get(ContactRecords[2], "id") = IdP1

\* What the handler returns for a call-tool request when it is run from the
\* state after construction and the upstream answers with the given
\* replies: NoResponse while a reply is still awaited.
RECURSIVE OutcomeAfter(_, _, _)
OutcomeAfter(step, arguments, answers) ==
    IF step.out = "return" THEN ToolResponse(step.result)
    ELSE IF answers = <<>> THEN NoResponse
    ELSE OutcomeAfter(ClientResume(arguments, step.stage, Head(answers)),
                      arguments, Tail(answers))

FreshOutcome(toolName, arguments, answers) ==
    LET sanitized == SanitizedArgs(toolName, arguments)
        thrown == HandlerThrows(toolName, sanitized)
    IN IF thrown # "" THEN HandlerCatch(thrown)
       ELSE OutcomeAfter(ClientStart(toolName, sanitized), sanitized, answers)

\* Nothing of an earlier invocation is left in the handler's state.
NothingPending ==
    /\ req = NoRequest
    /\ args = Obj(<<>>)
    /\ stage = "none"
    /\ httpLog = <<>>
    /\ replies = <<>>
    /\ raised = <<>>
    /\ resp = NoResponse

\* (C16) After a call-tool invocation that ended in a failure of any kind
\* (validation error, upstream HTTP error, transport error, unknown tool),
\* the server still handles every later list-tools and call-tool request,
\* and the outcome of a later call is what it would be had the failed call
\* never happened.  (The handlers accept a request exactly when pc = "idle",
\* and what they do then depends on no other variable than those of
\* NothingPending.)
C16_FailureLeavesLaterCallsUnaffected ==
    failedBefore =>
        /\ pc \in {"idle", "await", "done", "listed"}
        /\ pc = "idle" => NothingPending
        /\ pc = "listed" => resp = ToolsResponse
        /\ pc \in {"await", "done"} => resp = FreshOutcome(req.name, req.arguments, replies)

\* After a failed invocation a later people_enrichment call has returned the
\* upstream body.
C16_Witness ==
    /\ failedBefore
    /\ pc = "done"
    /\ req.name = "people_enrichment"
    /\ PlainPayload
    /\ ResponseText = JSONstringify(SampleBody)

\* The names of the catalog.
CatalogNames == {ToolCatalog[i].name : i \in 1..Len(ToolCatalog)}

\* The switch of the call-tool handler had no case for the requested name.
NotDispatched ==
    \E i \in 1..Len(raised) :
        raised[i] = "MCP error -32601: Unknown tool: " \o req.name

BoundMethod(toolName) ==
    IF toolName \in {"organization_enrichment", "organization_job_postings"}
    THEN "GET" ELSE "POST"

BoundUrls(toolName, arguments) ==
    CASE toolName = "people_enrichment" ->
            <<"https://api.apollo.io/api/v1/people/match">>
      [] toolName = "bulk_people_enrichment" ->
            <<"https://api.apollo.io/api/v1/people/bulk_match">>
      [] toolName = "organization_enrichment" ->
            <<"https://api.apollo.io/api/v1/organizations/enrich">>
      [] toolName = "people_search" ->
            <<"https://api.apollo.io/api/v1/mixed_people/search">>
      [] toolName = "organization_search" ->
            <<"https://api.apollo.io/api/v1/mixed_companies/search">>
      [] toolName = "organization_job_postings" ->
            <<"https://api.apollo.io/api/v1/organizations/"
              \o TemplateText(Get(arguments, "organization_id")) \o "/job_postings">>
      [] toolName = "get_person_email" ->
            <<"https://app.apollo.io/api/v1/mixed_people/add_to_my_prospects">>
      [] toolName = "employees_of_company" ->
            <<"https://api.apollo.io/v1/mixed_companies/search",
              "https://api.apollo.io/v1/mixed_people/search">>

\* (C18) Each tool name is bound to one fixed HTTP method and path whatever
\* the arguments: POST /people/match, POST /people/bulk_match,
\* GET /organizations/enrich, POST /mixed_people/search,
\* POST /mixed_companies/search, GET /organizations/{id}/job_postings on the
\* API host, and POST requests on the legacy hosts only for get_person_email
\* and employees_of_company.
C18_ToolBoundToFixedMethodAndPath ==
    (pc \in {"await", "done"} /\ req.name \in CatalogNames) =>
        /\ Len(httpLog) <= Len(BoundUrls(req.name, args))
        /\ \A i \in 1..Len(httpLog) :
              /\ httpLog[i].method = BoundMethod(req.name)
              /\ httpLog[i].url = BoundUrls(req.name, args)[i]

\* The job postings of organization "o1" have been requested.
C18_Witness ==
    /\ req.name = "organization_job_postings"
    /\ httpLog # <<>>
    /\ httpLog[1].method = "GET"
    /\ httpLog[1].url = "https://api.apollo.io/api/v1/organizations/o1/job_postings"

\* (C19) Claim: bulk_people_enrichment accepts up to 10 detail records in
\* one request: every outbound bulk_match request carries a details list of
\* at most 10 records.
C19_BulkRequestCarriesAtMostTenDetails ==
    \A i \in 1..Len(httpLog) :
        httpLog[i].url = "https://api.apollo.io/api/v1/people/bulk_match" =>
            /\ IsArray(Get(httpLog[i].body, "details"))
            /\ Len(Get(httpLog[i].body, "details").v) <= BulkLimit

\* The responses a successful operation with a null or empty payload gives.
NullOrEmptySuccess == {ToolResponse(JNull), ToolResponse(Obj(<<>>)), ToolResponse(Arr(<<>>))}

\* (C20) Claim: every upstream client operation ends in success-with-payload
\* or in a failure carrying a message, in failure exactly when the HTTP
\* response is non-2xx or the transport fails: every 2xx response yields the
\* response body as payload, and a failure is distinguishable from a success
\* whose payload is null or empty.
C20_FailureIffNot2xxAndDistinguishable ==
    (pc = "done" /\ replies # <<>>) =>
        LET last == replies[Len(replies)]
        IN /\ ~Resolves(last) => resp \notin NullOrEmptySuccess
           /\ (Resolves(last) /\ req.name \in PassThroughTools) =>
                  resp = ToolResponse(last.data)

RangesField == "organization_num_employees_ranges"

Seniorities == Str(<<"s","e","n","i","o","r",","," ","v","p">>)
SiteB == Str(<<"b",".","c","o">>)

\* The requests and replies of the overlapping invocations.
OverlapRequests ==
    {<<"employees_of_company",
       Obj(<<Entry("company", Acme), Entry("person_seniorities", Seniorities)>>)>>,
     <<"employees_of_company",
       Obj(<<Entry("company", Acme), Entry("website_url", SiteB)>>)>>,
     <<"organization_search",
       Obj(<<Entry(RangesField, Arr(<<Str(<<"1","1","-","5","0">>)>>))>>)>>,
     <<"people_enrichment", Obj(<<>>)>>,
     <<"delete_everything", Obj(<<>>)>>}

TwoCompanies ==
    Obj(<<Entry("organizations",
                Arr(<<Obj(<<Entry("id", IdO1)>>),
                      Obj(<<Entry("id", IdO2), Entry("website_url", SiteB)>>)>>))>>)

OverlapRepliesAt(atStage) ==
    CASE atStage = "orgSearch" -> {HttpReplyOf(HTTP_OK, TwoCompanies), TransportFailure}
      [] atStage = "peopleSearch" ->
            {HttpReplyOf(HTTP_OK, Obj(<<Entry("people", Arr(<<Person>>))>>)),
             HttpReplyOf(404, ErrorBody)}
      [] atStage = "single" -> {HttpReplyOf(HTTP_OK, SampleBody), HttpReplyOf(404, ErrorBody)}
      [] OTHER -> {}

\* An outbound request with the credential header it carries.
Sent(request) == [request |-> request, apiKey |-> apiKey]

\* Continue, on the locals of one invocation.
Advance(call, step) ==
    IF step.out = "request"
    THEN [call EXCEPT !.pc = "await",
                      !.stage = step.stage,
                      !.httpLog = Append(@, Sent(step.request)),
                      !.raised = @ \o step.raised]
    ELSE [call EXCEPT !.pc = "done",
                      !.stage = "none",
                      !.raised = @ \o step.raised,
                      !.resp = ToolResponse(step.result)]

\* A faulty variant of ArgsSeenBy: args is one variable shared by all
\* invocations, holding what the first invocation in progress stored.
ArgsSharedByAll(all, i) ==
    all[CHOOSE j \in Calls :
            /\ all[j].pc # "idle"
            /\ \A k \in Calls : all[k].pc # "idle" => j <= k].args

\* `const args` of the handler: each invocation reads its own.
ArgsSeenBy(all, i) == all[i].args

\* CallTool for invocation i.
OverlapCallTool(i, toolName, arguments) ==
    /\ calls[i].pc = "idle"
    /\ LET sanitized == SanitizedArgs(toolName, arguments)
           thrown == HandlerThrows(toolName, sanitized)
           started == [IdleCall EXCEPT !.req = [name |-> toolName, arguments |-> arguments],
                                       !.args = sanitized]
       IN calls' = [calls EXCEPT ![i] =
                       IF thrown # ""
                       THEN [started EXCEPT !.pc = "done",
                                            !.raised = <<thrown>>,
                                            !.resp = HandlerCatch(thrown)]
                       ELSE Advance(started, ClientStart(toolName, sanitized))]
    /\ UNCHANGED apiKey
    /\ UNCHANGED aloneVars

\* HttpReply for invocation i.
OverlapHttpReply(i, reply) ==
    /\ calls[i].pc = "await"
    /\ calls' = [calls EXCEPT ![i] =
                    Advance([calls[i] EXCEPT !.replies = Append(@, reply)],
                            ClientResume(ArgsSeenBy(calls, i), calls[i].stage, reply))]
    /\ UNCHANGED apiKey
    /\ UNCHANGED aloneVars

\* Return for invocation i.
OverlapReturn(i) ==
    /\ calls[i].pc = "done"
    /\ calls' = [calls EXCEPT ![i] = IdleCall]
    /\ UNCHANGED apiKey
    /\ UNCHANGED aloneVars

NextOverlap ==
    \/ \E i \in Calls : \E r \in OverlapRequests : OverlapCallTool(i, r[1], r[2])
    \/ \E i \in Calls : \E reply \in OverlapRepliesAt(calls[i].stage) :
          OverlapHttpReply(i, reply)
    \/ \E i \in Calls : OverlapReturn(i)

SpecOverlap == Init /\ [][NextOverlap]_vars

\* The requests the client issues for a call-tool request when it is run
\* alone and the upstream answers with the given replies.
RECURSIVE RequestsAfter(_, _, _)
RequestsAfter(step, arguments, answers) ==
    IF step.out = "return" THEN <<>>
    ELSE <<step.request>>
         \o (IF answers = <<>> THEN <<>>
             ELSE RequestsAfter(ClientResume(arguments, step.stage, Head(answers)),
                                arguments, Tail(answers)))

FreshRequests(toolName, arguments, answers) ==
    LET sanitized == SanitizedArgs(toolName, arguments)
    IN IF HandlerThrows(toolName, sanitized) # "" THEN <<>>
       ELSE RequestsAfter(ClientStart(toolName, sanitized), sanitized, answers)

\* (C22) For any interleaving of concurrent call-tool invocations, the
\* outbound requests and the response of each invocation depend only on its
\* own tool name, its own arguments and the upstream replies to its own
\* requests; the one shared datum, the API credential, is never written
\* after startup (every request carries the startup value).
C22_OverlappingInvocationsAreIndependent ==
    /\ apiKey = StartupKey
    /\ \A i \in Calls :
          calls[i].pc # "idle" =>
              /\ calls[i].resp =
                    FreshOutcome(calls[i].req.name, calls[i].req.arguments, calls[i].replies)
              /\ [n \in 1..Len(calls[i].httpLog) |-> calls[i].httpLog[n].request] =
                    FreshRequests(calls[i].req.name, calls[i].req.arguments, calls[i].replies)
              /\ \A n \in 1..Len(calls[i].httpLog) :
                    calls[i].httpLog[n].apiKey = StartupKey

\* Two employees_of_company invocations with different arguments overlap:
\* one awaits its people search while the other has finished with its own.
C22_Witness ==
    \E i, j \in Calls :
        /\ i # j
        /\ calls[i].req.name = "employees_of_company"
        /\ calls[j].req.name = "employees_of_company"
        /\ calls[i].req.arguments # calls[j].req.arguments
        /\ calls[i].pc = "await" /\ calls[i].stage = "peopleSearch"
        /\ calls[j].pc = "done" /\ Len(calls[j].httpLog) = 2

\* The URLs stripUrl has been applied to: the caller's and the candidates'.
UrlsNormalized ==
    {Get(args, f) : f \in UrlFields}
    \cup {Get(OrgCandidates[n], f) : n \in 1..Len(OrgCandidates), f \in UrlFields}

\* (C23) Claim: URL normalization is idempotent: normalizing the normalized
\* form of a URL gives the same string as normalizing it once, also for
\* mixed-case prefixes and repeated prefixes or trailing slashes.
C23_UrlNormalizationIsIdempotent ==
    EmployeesInvoked =>
        \A u \in UrlsNormalized :
            Truthy(u) => stripUrl(stripUrl(u)) = stripUrl(u)

\* The number of query entries the four flattening rules prescribe for a
\* field: none for null, one "k[]" entry for a non-empty array, one per
\* non-null sub-field of a nested object, one for a scalar.
PrescribedEntries(value) ==
    IF NullOrAbsent(value) THEN 0
    ELSE IF IsArray(value) THEN (IF value.v = <<>> THEN 0 ELSE 1)
    ELSE IF value.t = "obj"
         THEN Cardinality({j \in 1..Len(value.v) : ~NullOrAbsent(value.v[j].v)})
    ELSE 1

RECURSIVE PrescribedTotal(_)
PrescribedTotal(entries) ==
    IF entries = <<>> THEN 0
    ELSE PrescribedEntries(Head(entries).v) + PrescribedTotal(Tail(entries))

IsScalar(value) == value.t \in {"str", "num", "bool"}

\* (C24) Claim: for every filter object the flattened output holds exactly
\* the entries the four flattening rules prescribe and nothing is lost:
\* entries of distinct input fields never overwrite or merge with one
\* another (a scalar "k[]" beside an array k, a scalar "p[s]" beside a nested
\* p with sub-field s), and every scalar field yields exactly one entry
\* under its unmodified key.
C24_FlatteningLosesNothing ==
    SearchInvoked =>
        /\ Len(httpLog) = 1
        /\ Len(httpLog[1].params.v) = PrescribedTotal(args.v)
        /\ \A i \in 1..Len(args.v) :
              /\ IsScalar(args.v[i].v) =>
                    Get(httpLog[1].params, args.v[i].k) = args.v[i].v
              /\ (IsArray(args.v[i].v) /\ args.v[i].v.v # <<>>) =>
                    Get(httpLog[1].params, args.v[i].k \o "[]") = args.v[i].v

====
